---------------------------- MODULE Spec2Model ----------------------------
(***************************************************************************)
(* A model of the O365 middleware (src/app.py and src/application.py): the *)
(* trigger endpoint with its resync, the upstream subscriptions, the state *)
(* store, and the change-notification callback with its fetch, filter and  *)
(* forward pipeline.  The two source files are two variants of the same    *)
(* service; the variable `variant` says which one runs.                    *)
(*                                                                         *)
(* Strings are TLA+ strings, that is sequences of characters: Len, \o and  *)
(* SubSeq are the real length, concatenation and slicing.  Time is counted *)
(* in hours.                                                               *)
(***************************************************************************)
EXTENDS Integers, Sequences, FiniteSets, TLC

VARIABLES
    variant,        \* "app" (src/app.py) or "application" (src/application.py)
    clock,          \* datetime.now(), in hours
    store,          \* globalstate (app.py) / the file globalstate.pkl (application.py)
    lockEx,         \* holder of flock(LOCK_EX) on the store file, or "none"
    subscriptions,  \* the upstream service's subscriptions, in creation order
    nextId,         \* the upstream service's next subscription id
    nreq,           \* requests received so far
    pc,             \* per handler: where it is in its request
    req,            \* per handler: the request it serves
    loc,            \* per handler: the local variables of the request
    calls,          \* per handler: the outbound HTTP calls of its latest step
    resp            \* per handler: the HTTP response, once given

vars == <<variant, clock, store, lockEx, subscriptions, nextId, nreq,
          pc, req, loc, calls, resp>>

(***************************************************************************)
(* Bounds of the model.                                                    *)
(***************************************************************************)
MaxRequests == 2      \* requests the service receives
MaxBatch == 2         \* items in the body of one callback
MaxDelay == 2         \* hours a resync can take before the state is stored

Procs == {"h1", "h2"}
Variants == {"app", "application"}

(***************************************************************************)
(* Configuration constants of the source.                                  *)
(***************************************************************************)
HOURS_BETWEEN_FULLSYNC_AND_RESCUBSCRIBE == 23
HOURS_TO_SUBSCRIBE == 24
CALENDAR_DAYS_TO_CACHE == 8
HoursPerDay == 24
SUBSCRIPTION_CALLBACK_URL(v) ==
    IF v = "app" THEN "https://vs.breker.name"
    ELSE "https://<app_name>.azurewebsites.net"
SUBSCRIPTION_CALLBACK_PATH == "handle_subscription_callback"
GRAPH_API_URL(v) ==
    IF v = "app" THEN "https://graph.microsoft.com/"
    ELSE "https://graph.microsoft.com"

\* range(0, 5) in app.py; a single put in application.py
PutAttemptsApp == 5
PutAttemptsApplication == 1
PutAttempts(v) == IF v = "app" THEN PutAttemptsApp ELSE PutAttemptsApplication

(***************************************************************************)
(* Strings.                                                                *)
(***************************************************************************)
PyNone == "<None>"     \* Python's None where a string is expected

CharAt(s, i) == SubSeq(s, i, i)

Lower(c) ==
    CASE c = "M" -> "m"
      [] c = "U" -> "u"
      [] c = "X" -> "x"
      [] OTHER -> c

\* str.lower()
RECURSIVE LowerFrom(_, _)
LowerFrom(s, i) ==
    IF i > Len(s) THEN "" ELSE Lower(CharAt(s, i)) \o LowerFrom(s, i + 1)

LowerStr(s) == LowerFrom(s, 1)

\* str.startswith, str.endswith
StartsWith(s, prefix) ==
    /\ Len(s) >= Len(prefix)
    /\ SubSeq(s, 1, Len(prefix)) = prefix

EndsWith(s, suffix) ==
    /\ Len(s) >= Len(suffix)
    /\ SubSeq(s, Len(s) - Len(suffix) + 1, Len(s)) = suffix

\* The k-th smallest element of a set of numbers
KthOf(P, k) == CHOOSE i \in P : Cardinality({j \in P : j < i}) = k - 1

\* The places of the separator in s
Seps(s, sep) == {i \in 1..Len(s) : CharAt(s, i) = sep}

\* The fields of s between the separators at the places P
SplitAt(s, P) ==
    [k \in 1..(Cardinality(P) + 1) |->
       SubSeq(s, IF k = 1 THEN 1 ELSE KthOf(P, k - 1) + 1,
                 IF k = Cardinality(P) + 1 THEN Len(s) ELSE KthOf(P, k) - 1)]

\* str.split(sep): the list of the fields between the separators
Split(s, sep) == CHOOSE r \in {SplitAt(s, P) : P \in {Seps(s, sep)}} : TRUE

\* The two fields of s around the separator at the last place of P
RSplitAt(s, P) ==
    IF P = {} THEN <<s>>
    ELSE <<SubSeq(s, 1, KthOf(P, Cardinality(P)) - 1),
           SubSeq(s, KthOf(P, Cardinality(P)) + 1, Len(s))>>

\* str.rsplit(sep, 1): split once, at the last separator
RSplit1(s, sep) == CHOOSE r \in {RSplitAt(s, P) : P \in {Seps(s, sep)}} : TRUE

(***************************************************************************)
(* The correlation key.  hashlib.sha512(s).hexdigest() gives 128 hex       *)
(* digits; Digest is a stand-in that is a function of the byte string      *)
(* alone, is injective on the strings of the model, and whose digits       *)
(* depend on their position.                                               *)
(***************************************************************************)
DigestHexLen == 128
PrefixLen == 32

HexChars == "0123456789abcdef"

CharCode(c) == IF c = "a" THEN 1 ELSE IF c = "b" THEN 2 ELSE 3

RECURSIVE StrVal(_, _)
StrVal(s, i) == IF i = 0 THEN 0 ELSE CharCode(CharAt(s, i)) + 4 * StrVal(s, i - 1)

DigestDigit(v, i) ==
    LET d == CASE i % 4 = 0 -> v % 16
               [] i % 4 = 1 -> (v \div 16) % 16
               [] i % 4 = 2 -> (v \div 256) % 16
               [] OTHER     -> (v \div 4096) % 16
    IN CharAt(HexChars, ((d + 3 * (i \div 4)) % 16) + 1)

\* The digits lo..hi of the digest
RECURSIVE DigestRange(_, _, _)
DigestRange(v, lo, hi) ==
    IF lo = hi THEN DigestDigit(v, lo)
    ELSE DigestRange(v, lo, (lo + hi) \div 2)
         \o DigestRange(v, (lo + hi) \div 2 + 1, hi)

Digest(s) == DigestRange(StrVal(s, Len(s)), 1, DigestHexLen)

\* A split that loses the digit at the cut
KeySuffixAfterCut(hk) == SubSeq(hk, PrefixLen + 2, Len(hk))

\* hkey = [_hkey[0:32], _hkey[32:]]
KeyPrefix(hk) == SubSeq(hk, 1, PrefixLen)
KeySuffix(hk) == SubSeq(hk, PrefixLen + 1, Len(hk))

\* s = calendar_webhook + email_webhook; _hkey = sha512(s).hexdigest()
DeriveKey(calendar_webhook, email_webhook) ==
    Digest(calendar_webhook \o email_webhook)

\* hkey = hkey0 + hkey1
RebuildKey(hkey0, hkey1) == hkey0 \o hkey1

(***************************************************************************)
(* URLs of the upstream service (MS Graph) and of this service.            *)
(***************************************************************************)
UsersUrl(v) == GRAPH_API_URL(v) \o "/v1.0/users"
ManagerUrl(v, id) ==
    GRAPH_API_URL(v) \o "/v1.0/users/" \o id \o "/manager?$select=mail"
CalendarViewUrl(id) ==
    "https://graph.microsoft.com/v1.0/" \o "users/" \o id \o "/calendarview?"
SubscriptionsListUrl(v) ==
    GRAPH_API_URL(v) \o "/v1.0/subscriptions/?" \o "select=id,notificationUrl"
SubscriptionsUrl(v) == GRAPH_API_URL(v) \o "/v1.0/subscriptions"
SubscriptionUrl(v, id) == GRAPH_API_URL(v) \o "/v1.0/subscriptions/" \o id
ResourceUrl(v, odata_id) == GRAPH_API_URL(v) \o "/v1.0/" \o odata_id \o "?"

\* SUBSCRIPTION_CALLBACK_URL + "/" + SUBSCRIPTION_CALLBACK_PATH + "/" +
\* subscription + "/" + hkey[1]
NotificationUrl(base, subscription, hkey1) ==
    base \o "/" \o SUBSCRIPTION_CALLBACK_PATH \o "/" \o subscription \o "/" \o hkey1

\* The route /<SUBSCRIPTION_CALLBACK_PATH>/<subscription>/<hkey1> applied to
\* the path of a notification URL of this service
ParseRoute(v, url) ==
    LET path == SubSeq(url, Len(SUBSCRIPTION_CALLBACK_URL(v)) + 1, Len(url))
        parts == Split(path, "/")
    IN [subscription |-> parts[3], hkey1 |-> parts[4]]

\* hkey[0] + "^" + user['mail'] + "^" + user['manager_mail']
ClientState(hkey0, mail, manager_mail) ==
    hkey0 \o "^" \o mail \o "^" \o manager_mail

\* A delete of the webhook itself
DeleteUrlWithoutId(webhook, shortid) == webhook

\* f"{webhook}/?id={shortid}"
DeleteUrl(webhook, shortid) == webhook \o "/?id=" \o shortid

Call(op, url, body) == [op |-> op, url |-> url, body |-> body]
NoBody == [kind |-> "none"]

\* A call to the upstream service (MS Graph) / to a downstream cache webhook
IsUpstream(c) == StartsWith(c.url, GRAPH_API_URL("application"))
IsDownstream(c) == ~IsUpstream(c)

(***************************************************************************)
(* odata_getone / odata_get.  A listing is the pages the upstream service  *)
(* answers with: a failed request, or values and whether a nextLink        *)
(* follows.  odata_get follows nextLink until a page fails or has none;    *)
(* its result is a list, never None.                                       *)
(***************************************************************************)
PageFail == [ok |-> FALSE, value |-> <<>>, more |-> FALSE]
Page(value, more) == [ok |-> TRUE, value |-> value, more |-> more]

RECURSIVE OdataGetFrom(_, _)
OdataGetFrom(pages, i) ==
    IF i > Len(pages) \/ ~pages[i].ok
    THEN <<>>
    ELSE pages[i].value
         \o (IF pages[i].more THEN OdataGetFrom(pages, i + 1) ELSE <<>>)

odata_get(pages) == OdataGetFrom(pages, 1)

\* Every request odata_get makes for the listing is answered with a page
AllOk(pages) == \A i \in DOMAIN pages : pages[i].ok

\* The number of requests odata_get makes for a listing
RECURSIVE OdataRequestsFrom(_, _)
OdataRequestsFrom(pages, i) ==
    IF i > Len(pages) THEN 0
    ELSE IF pages[i].ok /\ pages[i].more
         THEN 1 + OdataRequestsFrom(pages, i + 1)
         ELSE 1

OdataCalls(url, pages) ==
    [i \in 1..OdataRequestsFrom(pages, 1) |-> Call("GET", url, NoBody)]

(***************************************************************************)
(* extract_meetinglink: re.findall(r'(https://\S+)', astring), then the    *)
(* first URL whose urlparse(url).netloc is allowed.                        *)
(***************************************************************************)
IsSpace(c) == c \in {" ", "\n", "\t"}

\* The end of the run of non-whitespace characters that holds place i
RunEnd(s, i) ==
    KthOf({k \in i..Len(s) : k = Len(s) \/ IsSpace(CharAt(s, k + 1))}, 1)

Scheme == "https://"

\* https://\S+ matches at place i
MatchesAt(s, i) ==
    /\ i + Len(Scheme) <= Len(s)
    /\ SubSeq(s, i, i + Len(Scheme) - 1) = Scheme
    /\ ~IsSpace(CharAt(s, i + Len(Scheme)))

\* re.findall: the matches from left to right, none inside another
FindUrls(s) ==
    LET starts == {i \in 1..Len(s) :
                     /\ MatchesAt(s, i)
                     /\ ~\E j \in 1..(i - 1) :
                           MatchesAt(s, j) /\ RunEnd(s, j) >= i}
    IN [k \in 1..Cardinality(starts) |->
          SubSeq(s, KthOf(starts, k), RunEnd(s, KthOf(starts, k)))]

\* urlparse(url).netloc: what follows the scheme up to the first / ? or #
NetlocEnd(url) ==
    KthOf({k \in Len(Scheme)..Len(url) :
              k = Len(url) \/ CharAt(url, k + 1) \in {"/", "?", "#"}}, 1)

Netloc(url) == SubSeq(url, Len(Scheme) + 1, NetlocEnd(url))

AllowedNetlocs == {"gotomeet.me", "www.gotomeet.me",
                   "global.gotomeeting.com", "teams.microsoft.com"}

\* A test for the suffix that leaves out its leading dot
NetlocAllowedWithoutDot(netloc) ==
    \/ netloc \in AllowedNetlocs
    \/ EndsWith(netloc, "webex.com")

NetlocAllowed(netloc) ==
    \/ netloc \in AllowedNetlocs
    \/ EndsWith(netloc, ".webex.com")

RECURSIVE FirstAllowed(_, _)
FirstAllowed(urls, i) ==
    IF i > Len(urls) THEN PyNone
    ELSE IF NetlocAllowed(Netloc(urls[i])) THEN urls[i]
         ELSE FirstAllowed(urls, i + 1)

extract_meetinglink(astring) == FirstAllowed(FindUrls(astring), 1)

(***************************************************************************)
(* parse_event: the recency filter, the meeting link, the PUT(s) to the    *)
(* calendar cache webhook.  The result is the list of calls it makes.      *)
(***************************************************************************)
\* A forward that is one request
PutOnce(v, url, body) == <<Call("PUT", url, body)>>

\* for i in range(0, 5): r = requests.put(...) in app.py, one requests.put
\* in application.py; what the webhook answers is looked at after the last
\* one only, and only to log a warning
PutCalls(v, url, body) == [i \in 1..PutAttempts(v) |-> Call("PUT", url, body)]

\* The PUT requests among the calls
Puts(made) == {k \in DOMAIN made : made[k].op = "PUT"}

\* What the cache webhooks answer to the PUTs of one forward: r.ok for all
\* of them, or for none
PutAnswers(made) == IF Puts(made) = {} THEN {TRUE} ELSE BOOLEAN

\* A filter that drops the event that started exactly one day ago
EventTooOldInclusive(event, now) == event.start <= now - HoursPerDay

EventTooOld(event, now) == event.start < now - HoursPerDay
EventTooFar(event, now) == event.start > now + CALENDAR_DAYS_TO_CACHE * HoursPerDay

parse_event(v, event, owner, calendar_webhook, now) ==
    IF EventTooOld(event, now) \/ EventTooFar(event, now)
    THEN <<>>
    ELSE PutCalls(v, calendar_webhook,
                  [kind |-> "event", id |-> event.id, start |-> event.start,
                   owner |-> owner,
                   meetingLink |-> extract_meetinglink(
                       event.location \o "^" \o event.content)])

RECURSIVE ParseEvents(_, _, _, _, _, _)
ParseEvents(v, events, i, owner, calendar_webhook, now) ==
    IF i > Len(events) THEN <<>>
    ELSE parse_event(v, events[i], owner, calendar_webhook, now)
         \o ParseEvents(v, events, i + 1, owner, calendar_webhook, now)

(***************************************************************************)
(* The state store.                                                        *)
(***************************************************************************)
StateEntry(authorization, calendar_webhook, email_webhook, next_sync) ==
    [authorization |-> authorization, calendar_webhook |-> calendar_webhook,
     email_webhook |-> email_webhook, next_sync |-> next_sync]

EmptyDict == <<>>
DictPut(d, k, x) == [j \in (DOMAIN d) \cup {k} |-> IF j = k THEN x ELSE d[j]]

\* status: "ok" (a complete pickle), "missing" (no file yet), "empty" (the
\* file was opened 'wb' and is not written yet)
StoreOf(status, data) == [status |-> status, data |-> data]

\* What get_data does: "value" (data[hkey]), "KeyError", "nofile" (it
\* returns {}), "EOFError" (pickle.load of an empty file)
get_data(st, hkey) ==
    IF st.status = "missing" THEN [kind |-> "nofile"]
    ELSE IF st.status = "empty" THEN [kind |-> "EOFError"]
    ELSE IF hkey \in DOMAIN st.data
         THEN [kind |-> "value", v |-> st.data[hkey]]
         ELSE [kind |-> "KeyError"]

\* A read of the store file takes the shared lock, which waits for a writer
\* that holds the exclusive one; app.py has no file and no lock
CanRead == lockEx = "none" \/ variant = "app"

(***************************************************************************)
(* The inputs of the model: the requests the service receives and what the *)
(* upstream service answers.                                               *)
(***************************************************************************)
\* (calendar_webhook, email_webhook, Authorization) of a trigger; the
\* webhooks of the first two concatenate to the same string
TriggerArgs == {<<"a", "aa", "Bearer 1">>, <<"aa", "a", "Bearer 2">>,
                <<"a", "b", "Bearer 1">>}

\* A user as the directory lists it, with what the manager lookup answers:
\* "fail" (the request fails), "nomail" (no 'mail' in it), or the mail
DirUser(id, mail, manager) == [id |-> id, mail |-> mail, manager |-> manager]
User1 == DirUser("u1", "U@co", "M@co")
User2 == DirUser("u2", PyNone, "fail")

UserListings ==
    { <<PageFail>>,
      <<Page(<<User1>>, FALSE)>>,
      <<Page(<<User1>>, TRUE), Page(<<User2>>, FALSE)>>,
      <<Page(<<User2, User1>>, FALSE)>> }

Event(id, start, location, content) ==
    [id |-> id, start |-> start, location |-> location, content |-> content]

LinkBlob == "Join https://evil.example.com/x or https://foo.webex.com/meet now"

\* What calendarview answers at the time now
CalendarViews(now) ==
    { <<PageFail>>,
      <<Page(<<Event("e1", now - HoursPerDay - 1, "Room A", ""),
               Event("e2", now - HoursPerDay, "Room A", LinkBlob)>>, FALSE)>>,
      <<Page(<<Event("e3", now + CALENDAR_DAYS_TO_CACHE * HoursPerDay,
                     "https://teams.microsoft.com/l/1", "")>>, TRUE),
        Page(<<Event("e4", now + CALENDAR_DAYS_TO_CACHE * HoursPerDay + 1,
                     "Room B", "")>>, FALSE)>> }

Subscription(id, notificationUrl, clientState, resource, expirationDateTime) ==
    [id |-> id, notificationUrl |-> notificationUrl,
     clientState |-> clientState, resource |-> resource,
     expirationDateTime |-> expirationDateTime]

\* A subscription of another application
ForeignSubscription ==
    Subscription("f1", "https://other.example.net/hook", "other",
                 "/users/u1/messages", HOURS_TO_SUBSCRIBE)

\* A subscription this service registered in an earlier life, for the
\* webhooks ("b", "b"), of which the store holds nothing
StaleSubscription(v) ==
    Subscription("f2",
                 NotificationUrl(SUBSCRIPTION_CALLBACK_URL(v), "messages",
                                 KeySuffix(DeriveKey("b", "b"))),
                 ClientState(KeyPrefix(DeriveKey("b", "b")), "U@co", "m@co"),
                 "/users/u1/messages", HOURS_TO_SUBSCRIBE)

(***************************************************************************)
(* Requests, responses, and a handler's local variables.                   *)
(***************************************************************************)
NoRequest == [kind |-> "none"]
NoLocals == [kind |-> "none"]
NoResponse == [status |-> 0]

Response(body, status, mimetype) ==
    [status |-> status, body |-> body, mimetype |-> mimetype]

\* What Flask answers when the view raises
InternalServerError == Response("Internal Server Error", 500, "text/html")

\* Response('{"status": "ok"}', status=200)
OkResponse == Response("{\"status\": \"ok\"}", 200, "text/html")

Init ==
    /\ variant \in Variants
    /\ clock = 0
    /\ store = IF variant = "app" THEN StoreOf("ok", EmptyDict)
               ELSE StoreOf("missing", EmptyDict)
    /\ lockEx = "none"
    /\ subscriptions = <<ForeignSubscription, StaleSubscription(variant)>>
    /\ nextId = 1
    /\ nreq = 0
    /\ pc = [p \in Procs |-> "idle"]
    /\ req = [p \in Procs |-> NoRequest]
    /\ loc = [p \in Procs |-> NoLocals]
    /\ calls = [p \in Procs |-> <<>>]
    /\ resp = [p \in Procs |-> NoResponse]

\* The view raises: nothing more of it runs, Flask answers 500
Raise(p) ==
    /\ pc' = [pc EXCEPT ![p] = "done"]
    /\ resp' = [resp EXCEPT ![p] = InternalServerError]

(***************************************************************************)
(* trigger_middleware, up to the decision whether to resync.               *)
(***************************************************************************)
\* A resync that waits until next_sync has passed
SyncDueStrictlyAfter(next_sync, now) == next_sync = 0 \/ now > next_sync

\* if next_sync == 0 or datetime.now() >= next_sync
SyncDue(next_sync, now) == next_sync = 0 \/ now >= next_sync

TriggerRequest(calendar_webhook, email_webhook, authorization) ==
    [kind |-> "trigger", calendar_webhook |-> calendar_webhook,
     email_webhook |-> email_webhook, authorization |-> authorization]

trigger_middleware(p) ==
    /\ pc[p] = "idle"
    /\ nreq < MaxRequests
    /\ CanRead
    /\ \E args \in TriggerArgs :
         LET authorization == args[3]
             _hkey == DeriveKey(args[1], args[2])
             got == get_data(store, _hkey)
             next_sync == IF got.kind = "value" THEN got.v.next_sync ELSE 0
         IN /\ req' = [req EXCEPT
                         ![p] = TriggerRequest(args[1], args[2], authorization)]
            /\ loc' = [loc EXCEPT ![p] =
                         [kind |-> "trigger",
                          _hkey |-> _hkey,
                          hkey |-> <<KeyPrefix(_hkey), KeySuffix(_hkey)>>,
                          found |-> got.kind = "value",
                          was |-> next_sync,
                          checkedAt |-> clock,
                          storedAt |-> clock,
                          resync |-> FALSE,
                          users |-> <<>>,
                          pulled |-> <<>>,
                          pulledAt |-> clock,
                          putOk |-> TRUE,
                          usersOk |-> TRUE,
                          listingOk |-> TRUE,
                          phases |-> <<>>,
                          created |-> <<>>,
                          data |-> EmptyDict]]
            /\ IF got.kind = "EOFError"
               THEN Raise(p)
               ELSE /\ pc' = [pc EXCEPT ![p] =
                                IF SyncDue(next_sync, clock)
                                THEN "get_all_users" ELSE "store_data"]
                    /\ UNCHANGED resp
    /\ nreq' = nreq + 1
    /\ calls' = [calls EXCEPT ![p] = <<>>]
    /\ UNCHANGED <<variant, clock, store, lockEx, subscriptions, nextId>>

(***************************************************************************)
(* get_all_users: the directory listing, then one manager lookup per user. *)
(***************************************************************************)
ManagerMail(u) ==
    IF u.manager \in {"fail", "nomail"} THEN "" ELSE LowerStr(u.manager)

ResolveUser(u) == [id |-> u.id, mail |-> u.mail, manager_mail |-> ManagerMail(u)]

get_all_users(p) ==
    /\ pc[p] = "get_all_users"
    /\ \E listing \in UserListings :
         LET users == odata_get(listing)
         IN /\ loc' = [loc EXCEPT
                         ![p].users = [i \in 1..Len(users) |-> ResolveUser(users[i])],
                         ![p].usersOk = AllOk(listing),
                         ![p].phases = Append(@, "users")]
            /\ calls' = [calls EXCEPT ![p] =
                           OdataCalls(UsersUrl(variant), listing)
                           \o [i \in 1..Len(users) |->
                                 Call("GET", ManagerUrl(variant, users[i].id), NoBody)]]
    /\ pc' = [pc EXCEPT ![p] = "update_calendar"]
    /\ UNCHANGED <<variant, clock, store, lockEx, subscriptions, nextId, nreq,
                   req, resp>>

(***************************************************************************)
(* update_calendar: per user, the calendar view, and parse_event for each  *)
(* event of it.                                                            *)
(***************************************************************************)
RECURSIVE CalendarCalls(_, _, _, _, _, _)
CalendarCalls(v, users, views, i, calendar_webhook, now) ==
    IF i > Len(users) THEN <<>>
    ELSE OdataCalls(CalendarViewUrl(users[i].id), views[i])
         \o ParseEvents(v, odata_get(views[i]), 1, users[i].mail,
                        calendar_webhook, now)
         \o CalendarCalls(v, users, views, i + 1, calendar_webhook, now)

update_calendar(p) ==
    /\ pc[p] = "update_calendar"
    /\ \E view \in CalendarViews(clock) :
       LET views == [i \in 1..Len(loc[p].users) |-> view]
       IN
         /\ calls' = [calls EXCEPT ![p] =
                        CalendarCalls(variant, loc[p].users, views, 1,
                                      req[p].calendar_webhook, clock)]
         /\ \E putOk \in PutAnswers(calls'[p]) :
            loc' = [loc EXCEPT
                      ![p].pulled = [i \in 1..Len(views) |-> odata_get(views[i])],
                      ![p].pulledAt = clock,
                      ![p].putOk = putOk,
                      ![p].phases = Append(@, "calendar")]
    /\ pc' = [pc EXCEPT ![p] = "wipe_subscriptions"]
    /\ UNCHANGED <<variant, clock, store, lockEx, subscriptions, nextId, nreq,
                   req, resp>>

(***************************************************************************)
(* wipe_subscriptions: list the subscriptions, delete those whose          *)
(* notification URL starts with this service's base URL.  A delete that    *)
(* fails raises, and the trigger request ends there.                       *)
(***************************************************************************)
IsOwn(v, subscription) ==
    StartsWith(subscription.notificationUrl, SUBSCRIPTION_CALLBACK_URL(v))

\* A wipe that takes every subscription of the listing
WholeListing(v, subs, i) == subs

RECURSIVE Filter(_, _, _)
Filter(v, subs, i) ==
    IF i > Len(subs) THEN <<>>
    ELSE (IF IsOwn(v, subs[i]) THEN <<subs[i]>> ELSE <<>>)
         \o Filter(v, subs, i + 1)

RECURSIVE Without(_, _, _)
Without(subs, ids, i) ==
    IF i > Len(subs) THEN <<>>
    ELSE (IF subs[i].id \in ids THEN <<>> ELSE <<subs[i]>>)
         \o Without(subs, ids, i + 1)

\* The subscriptions of the listing, as one page
SubscriptionListing(ok) ==
    IF ok THEN <<Page(subscriptions, FALSE)>> ELSE <<PageFail>>

\* A wipe that goes on after the delete that fails
DeletedAll(targets, failAt) == {targets[i].id : i \in 1..Len(targets)}

\* failAt = 0: every delete succeeds; otherwise the failAt-th delete fails
Deleted(targets, failAt) ==
    {targets[i].id : i \in 1..(IF failAt = 0 THEN Len(targets) ELSE failAt - 1)}

wipe_subscriptions(p) ==
    /\ pc[p] = "wipe_subscriptions"
    /\ \E ok \in BOOLEAN :
         LET targets == Filter(variant, odata_get(SubscriptionListing(ok)), 1)
         IN \E failAt \in 0..Len(targets) :
              LET attempts == IF failAt = 0 THEN Len(targets) ELSE failAt
              IN /\ subscriptions' =
                        Without(subscriptions, Deleted(targets, failAt), 1)
                 /\ calls' = [calls EXCEPT ![p] =
                        OdataCalls(SubscriptionsListUrl(variant),
                                   SubscriptionListing(ok))
                        \o [i \in 1..attempts |->
                              Call("DELETE",
                                   SubscriptionUrl(variant, targets[i].id),
                                   NoBody)]]
                 /\ loc' = [loc EXCEPT ![p].phases = Append(@, "wipe"),
                                       ![p].pulled = <<>>,
                                       ![p].putOk = TRUE,
                                       ![p].listingOk = ok]
                 /\ IF failAt = 0
                    THEN /\ pc' = [pc EXCEPT ![p] = "register_subscriptions"]
                         /\ UNCHANGED resp
                    ELSE Raise(p)
    /\ UNCHANGED <<variant, clock, store, lockEx, nextId, nreq, req>>

(***************************************************************************)
(* register_subscriptions: per user, one subscription for messages and one *)
(* for events, lasting HOURS_TO_SUBSCRIBE.  A POST that fails is logged.   *)
(* app.py raises TypeError at a user whose mail is None; application.py    *)
(* skips such a user.                                                      *)
(***************************************************************************)
SubscriptionKinds == <<"messages", "events">>

\* The place of the first user whose mail is None, 0 when there is none
RECURSIVE FirstNoneMail(_, _)
FirstNoneMail(users, i) ==
    IF i > Len(users) THEN 0
    ELSE IF users[i].mail = PyNone THEN i ELSE FirstNoneMail(users, i + 1)

\* The users the loop gets to build subscriptions for
RECURSIVE RegisterUsers(_, _, _)
RegisterUsers(v, users, i) ==
    IF i > Len(users) THEN <<>>
    ELSE IF users[i].mail = PyNone
         THEN (IF v = "app" THEN <<>> ELSE RegisterUsers(v, users, i + 1))
         ELSE <<users[i]>> \o RegisterUsers(v, users, i + 1)

Resource(v, user, subscription) ==
    "/users/" \o user.id \o "/" \o subscription
    \o (IF v = "app" THEN "/" ELSE "")

SubscriptionData(v, hkey, user, subscription, future) ==
    [notificationUrl |-> NotificationUrl(SUBSCRIPTION_CALLBACK_URL(v),
                                         subscription, hkey[2]),
     resource |-> Resource(v, user, subscription),
     expirationDateTime |-> future,
     clientState |-> ClientState(hkey[1], user.mail, user.manager_mail)]

\* A loop that subscribes every user to the messages alone
RegisterMessagesOnly(v, hkey, users, future) ==
    [k \in 1..Len(users) |->
        SubscriptionData(v, hkey, users[k], SubscriptionKinds[1], future)]

\* The POSTs in order: for user in users: for subscription in [...]
RegisterPosts(v, hkey, users, future) ==
    [k \in 1..(2 * Len(users)) |->
        SubscriptionData(v, hkey, users[(k + 1) \div 2],
                         SubscriptionKinds[2 - (k % 2)], future)]

\* What the upstream service creates for the POSTs that succeed
RECURSIVE Created(_, _, _, _)
Created(posts, k, fails, id) ==
    IF k > Len(posts) THEN <<>>
    ELSE IF k \in fails THEN Created(posts, k + 1, fails, id)
    ELSE <<Subscription(ToString(id), posts[k].notificationUrl,
                        posts[k].clientState, posts[k].resource,
                        posts[k].expirationDateTime)>>
         \o Created(posts, k + 1, fails, id + 1)

register_subscriptions(p) ==
    /\ pc[p] = "register_subscriptions"
    /\ LET future == clock + HOURS_TO_SUBSCRIBE
           users == RegisterUsers(variant, loc[p].users, 1)
           posts == RegisterPosts(variant, loc[p].hkey, users, future)
           crash == variant = "app" /\ FirstNoneMail(loc[p].users, 1) > 0
       IN \E fails \in {{}} \cup {{k} : k \in {1} \cap DOMAIN posts} :
            LET created == Created(posts, 1, fails, nextId)
            IN /\ subscriptions' = subscriptions \o created
               /\ nextId' = nextId + Len(created)
               /\ calls' = [calls EXCEPT ![p] =
                     [k \in 1..Len(posts) |->
                         Call("POST", SubscriptionsUrl(variant), posts[k])]]
               /\ loc' = [loc EXCEPT ![p].phases = Append(@, "subscribe"),
                                     ![p].resync = ~crash,
                                     ![p].created = created]
               /\ IF crash
                  THEN Raise(p)
                  ELSE /\ pc' = [pc EXCEPT ![p] = "store_data"]
                       /\ UNCHANGED resp
    /\ UNCHANGED <<variant, clock, store, lockEx, nreq, req>>

(***************************************************************************)
(* The end of trigger_middleware: next_sync, the state, store_data, 200.   *)
(***************************************************************************)
\* A next_sync that lasts as long as the subscriptions do
NextSyncWithSubscriptions(resync, next_sync, now) ==
    IF resync THEN now + HOURS_TO_SUBSCRIBE ELSE next_sync

\* next_sync = datetime.now() + timedelta(hours=...) after a resync,
\* the value read from the store otherwise
NextSync(resync, next_sync, now) ==
    IF resync THEN now + HOURS_BETWEEN_FULLSYNC_AND_RESCUBSCRIBE ELSE next_sync

\* A state that keeps the next_sync of a resync only
TriggerStateOfResyncOnly(p) ==
    StateEntry(req[p].authorization, req[p].calendar_webhook,
               req[p].email_webhook, NextSync(loc[p].resync, 0, clock))

TriggerState(p) ==
    StateEntry(req[p].authorization, req[p].calendar_webhook,
               req[p].email_webhook,
               NextSync(loc[p].resync, loc[p].was, clock))

\* app.py: globalstate[hkey] = state.  application.py: the first half of
\* store_data, which reads the file (an empty file raises EOFError; no file
\* gives FileNotFoundError, which is caught)
store_data(p) ==
    /\ pc[p] = "store_data"
    /\ CanRead
    /\ IF variant = "app"
       THEN /\ store' = StoreOf("ok", DictPut(store.data, loc[p]._hkey,
                                              TriggerState(p)))
            /\ pc' = [pc EXCEPT ![p] = "done"]
            /\ resp' = [resp EXCEPT ![p] = OkResponse]
            /\ loc' = [loc EXCEPT ![p].storedAt = clock]
       ELSE /\ UNCHANGED store
            /\ IF store.status = "empty"
               THEN /\ Raise(p)
                    /\ UNCHANGED loc
               ELSE /\ loc' = [loc EXCEPT
                                 ![p].data = DictPut(
                                     IF store.status = "ok"
                                     THEN store.data ELSE EmptyDict,
                                     loc[p]._hkey, TriggerState(p)),
                                 ![p].storedAt = clock]
                    /\ pc' = [pc EXCEPT ![p] = "store_open"]
                    /\ UNCHANGED resp
    /\ calls' = [calls EXCEPT ![p] = <<>>]
    /\ UNCHANGED <<variant, clock, lockEx, subscriptions, nextId, nreq, req>>

\* open(GLOBAL_STATE_PATH, 'wb') truncates the file, before any lock
store_open(p) ==
    /\ pc[p] = "store_open"
    /\ store' = StoreOf("empty", EmptyDict)
    /\ pc' = [pc EXCEPT ![p] = "store_lock"]
    /\ UNCHANGED <<variant, clock, lockEx, subscriptions, nextId, nreq, req,
                   loc, calls, resp>>

\* fcntl.flock(gs_file, fcntl.LOCK_EX)
store_lock(p) ==
    /\ pc[p] = "store_lock"
    /\ lockEx = "none"
    /\ lockEx' = p
    /\ pc' = [pc EXCEPT ![p] = "store_dump"]
    /\ UNCHANGED <<variant, clock, store, subscriptions, nextId, nreq, req,
                   loc, calls, resp>>

\* pickle.dump(data, gs_file), unlock, and the 200 of trigger_middleware
store_dump(p) ==
    /\ pc[p] = "store_dump"
    /\ store' = StoreOf("ok", loc[p].data)
    /\ lockEx' = "none"
    /\ pc' = [pc EXCEPT ![p] = "done"]
    /\ resp' = [resp EXCEPT ![p] = OkResponse]
    /\ UNCHANGED <<variant, clock, subscriptions, nextId, nreq, req, loc, calls>>

(***************************************************************************)
(* The notifications the upstream service posts to the callback.           *)
(***************************************************************************)
Missing == "<missing>"     \* a key the JSON object does not have

\* One element of jsonbody['value']; odata_id is
\* value['resourceData']['@odata.id']
Item(clientState, changeType, odata_id) ==
    [clientState |-> clientState, changeType |-> changeType,
     odata_id |-> odata_id]

\* The subscriptions of this service a notification can come from: the
\* current ones, and the one of its earlier life
Notifying ==
    {subscriptions[i] : i \in {j \in DOMAIN subscriptions :
                                  IsOwn(variant, subscriptions[j])}}
    \cup {StaleSubscription(variant)}

Route(subscription, hkey1) == [subscription |-> subscription, hkey1 |-> hkey1]

\* The routes of the notification URLs, and those of the current
\* subscriptions with a kind the service never subscribes to
Routes ==
    {ParseRoute(variant, s.notificationUrl) : s \in Notifying}
    \cup {Route("contacts", ParseRoute(variant, s.notificationUrl).hkey1) :
            s \in Notifying \ {StaleSubscription(variant)}}

OdataId(subscription) ==
    IF subscription = "events" THEN "Users/u1/Events/AAMkE1"
    ELSE "Users/u1/Messages/AAMkM1"

\* The items a batch on a route is made of: notifications of a subscription
\* with that URL suffix, one with the clientState of another subscription,
\* and malformed ones
Items(route) ==
    LET states == {s.clientState : s \in
                     {n \in Notifying :
                        ParseRoute(variant, n.notificationUrl).hkey1 = route.hkey1}}
    IN {Item(cs, ct, OdataId(route.subscription)) :
            cs \in states, ct \in {"updated", "deleted"}}
       \cup {Item(cs, "deleted", Missing) : cs \in states}
       \cup {Item(StaleSubscription(variant).clientState, "updated",
                  OdataId(route.subscription)),
             Item("nocaret", "updated", OdataId(route.subscription))}

RECURSIVE SeqsUpTo(_, _)
SeqsUpTo(S, n) ==
    IF n = 0 THEN {<<>>}
    ELSE SeqsUpTo(S, n - 1)
         \cup {Append(q, x) : q \in {r \in SeqsUpTo(S, n - 1) : Len(r) = n - 1},
                              x \in S}

(***************************************************************************)
(* What the upstream service answers to the fetch of a resource.           *)
(***************************************************************************)
NoFetch == [ok |-> FALSE, kind |-> "none"]
FetchFail == [ok |-> FALSE, kind |-> "fail"]

Message(id, from, importance) ==
    [ok |-> TRUE, kind |-> "message", id |-> id, from |-> from,
     importance |-> importance]

Fetched(event) == [ok |-> TRUE, kind |-> "event", event |-> event]

Fetches(subscription, now) ==
    IF subscription = "events"
    THEN {FetchFail}
         \cup {Fetched(Event("AAMkE1", now + d, "Room A", LinkBlob)) :
                 d \in {0 - HoursPerDay - 1, 0 - HoursPerDay,
                        CALENDAR_DAYS_TO_CACHE * HoursPerDay,
                        CALENDAR_DAYS_TO_CACHE * HoursPerDay + 1}}
    ELSE {FetchFail,
          Message("AAMkM1", "M@co", "normal"),
          Message("AAMkM1", "x@co", "normal"),
          Message("AAMkM1", "X@co", "high")}

(***************************************************************************)
(* _handle_subscription_callback_value and what it calls, as the outcome   *)
(* of one item: the exception it ends with ("none" when it returns) and    *)
(* the HTTP calls it makes, in order.                                      *)
(***************************************************************************)
Outcome(exc, made) == [exc |-> exc, calls |-> made]

\* A comparison of the addresses as they are written
IsFromManagerExact(manager_mail, from) == manager_mail = from

\* manager_mail == jsondata['from']['emailAddress']['address'].lower()
IsFromManager(manager_mail, from) == manager_mail = LowerStr(from)

\* if not is_from_manager and jsondata['importance'] != 'high': return
MessageDropped(is_from_manager, importance) ==
    ~is_from_manager /\ importance # "high"

process_message(v, globalstateentry, mail, manager_mail, odata_id, fetched) ==
    LET get == <<Call("GET", ResourceUrl(v, odata_id), NoBody)>>
    IN IF ~fetched.ok THEN Outcome("MiddlewareException", get)
       ELSE LET is_from_manager == IsFromManager(manager_mail, fetched.from)
            IN IF MessageDropped(is_from_manager, fetched.importance)
               THEN Outcome("none", get)
               ELSE Outcome("none",
                      get \o PutCalls(v, globalstateentry.email_webhook,
                                      [kind |-> "message", id |-> fetched.id,
                                       from |-> fetched.from,
                                       importance |-> fetched.importance,
                                       owner |-> mail,
                                       is_from_manager |-> is_from_manager]))

process_event(v, globalstateentry, mail, odata_id, fetched, now) ==
    LET get == <<Call("GET", ResourceUrl(v, odata_id), NoBody)>>
    IN IF ~fetched.ok THEN Outcome("MiddlewareException", get)
       ELSE Outcome("none",
              get \o parse_event(v, fetched.event, mail,
                                 globalstateentry.calendar_webhook, now))

\* The part of _handle_subscription_callback_value after the state lookup
Dispatch(v, globalstateentry, subscription, mail, manager_mail, value, fetched, now) ==
    IF value.odata_id = Missing THEN Outcome("KeyError", <<>>)
    ELSE IF Len(RSplit1(value.odata_id, "/")) < 2 THEN Outcome("IndexError", <<>>)
    ELSE LET shortid == RSplit1(value.odata_id, "/")[2]
         IN IF subscription = "messages"
            THEN IF value.changeType = Missing THEN Outcome("KeyError", <<>>)
                 ELSE IF value.changeType = "deleted"
                 THEN Outcome("none",
                        <<Call("DELETE",
                               DeleteUrl(globalstateentry.email_webhook, shortid),
                               NoBody)>>)
                 ELSE process_message(v, globalstateentry, mail, manager_mail,
                                      value.odata_id, fetched)
            ELSE IF subscription = "events"
            THEN IF value.changeType = Missing THEN Outcome("KeyError", <<>>)
                 ELSE IF value.changeType = "deleted"
                 THEN Outcome("none",
                        <<Call("DELETE",
                               DeleteUrl(globalstateentry.calendar_webhook, shortid),
                               NoBody)>>)
                 ELSE process_event(v, globalstateentry, mail, value.odata_id,
                                    fetched, now)
            ELSE Outcome("MiddlewareException", <<>>)

\* A lookup that lets the KeyError out
LookupRaising(v, got) ==
    CASE got.kind = "KeyError" -> "KeyError"
      [] got.kind = "nofile" -> "MiddlewareException"
      [] got.kind = "EOFError" -> "EOFError"
      [] OTHER -> "found"

\* What the state lookup of the item handler ends with, if it ends there:
\* "return" (KeyError: logged, the handler returns), an exception, or
\* "found"
Lookup(v, got) ==
    CASE got.kind = "KeyError" -> "return"
      [] got.kind = "nofile" -> "MiddlewareException"
      [] got.kind = "EOFError" -> "EOFError"
      [] OTHER -> "found"

\* The item handler from the unpacking of client_state.split('^') on
handle_parts(v, st, subscription, hkey1, value, fetched, now, parts) ==
    IF Len(parts) # 3 THEN Outcome("ValueError", <<>>)
    ELSE LET hkey == RebuildKey(parts[1], hkey1)
             got == get_data(st, hkey)
         IN IF Lookup(v, got) = "return" THEN Outcome("none", <<>>)
            ELSE IF Lookup(v, got) # "found"
            THEN Outcome(Lookup(v, got), <<>>)
            ELSE Dispatch(v, got.v, subscription, parts[2], parts[3],
                          value, fetched, now)

handle_value(v, st, subscription, hkey1, value, fetched, now) ==
    IF value.clientState = Missing THEN Outcome("KeyError", <<>>)
    ELSE CHOOSE out \in
            {handle_parts(v, st, subscription, hkey1, value, fetched, now, parts) :
                parts \in {Split(value.clientState, "^")}} : TRUE

\* The key the item handler rebuilds, Missing when it does not get to it
ItemKey(hkey1, value) ==
    IF value.clientState = Missing THEN Missing
    ELSE IF Len(Split(value.clientState, "^")) # 3 THEN Missing
    ELSE RebuildKey(Split(value.clientState, "^")[1], hkey1)

\* A loop without the try
CaughtNothing(exc) == exc = "none"

\* try: ... except MiddlewareException: pass
Caught(exc) == exc \in {"none", "MiddlewareException"}

(***************************************************************************)
(* handle_subscription_callback: the validation handshake, or the loop     *)
(* over the items of the batch (one item per step).                        *)
(***************************************************************************)
CallbackRequest(route, validationToken, value) ==
    [kind |-> "callback", subscription |-> route.subscription,
     hkey1 |-> route.hkey1, validationToken |-> validationToken,
     value |-> value]

Tokens == {"tok-1"}

\* A handshake answered like a notification
ValidationAccepted(validationToken) == Response("", 202, "text/html")

\* Response(request.args['validationToken'], status=200,
\*          mimetype='text/plain; charset=utf-8')
ValidationResponse(validationToken) ==
    Response(validationToken, 200, "text/plain; charset=utf-8")

\* Response('', status=202)
Accepted == Response("", 202, "text/html")

handle_subscription_callback(p) ==
    /\ pc[p] = "idle"
    /\ nreq < MaxRequests
    /\ \E route \in Routes :
       \E validationToken \in Tokens \cup {Missing} :
       \E items \in {Items(route)} :
       \E value \in SeqsUpTo(items, IF validationToken = Missing
                                     THEN MaxBatch ELSE 1) :
         /\ req' = [req EXCEPT
                      ![p] = CallbackRequest(route, validationToken, value)]
         /\ loc' = [loc EXCEPT ![p] = [kind |-> "callback", idx |-> 1,
                                       outs |-> <<>>]]
         /\ IF validationToken # Missing
            THEN /\ pc' = [pc EXCEPT ![p] = "done"]
                 /\ resp' = [resp EXCEPT ![p] =
                               ValidationResponse(validationToken)]
            ELSE IF value = <<>>
            THEN /\ pc' = [pc EXCEPT ![p] = "done"]
                 /\ resp' = [resp EXCEPT ![p] = Accepted]
            ELSE /\ pc' = [pc EXCEPT ![p] = "callback_value"]
                 /\ UNCHANGED resp
    /\ nreq' = nreq + 1
    /\ calls' = [calls EXCEPT ![p] = <<>>]
    /\ UNCHANGED <<variant, clock, store, lockEx, subscriptions, nextId>>

UsedFetch(out) == \E i \in DOMAIN out.calls : out.calls[i].op = "GET"

handle_subscription_callback_value(p) ==
    /\ pc[p] = "callback_value"
    /\ CanRead
    /\ \E fetched \in Fetches(req[p].subscription, clock) :
       \E out \in {handle_value(variant, store, req[p].subscription,
                                 req[p].hkey1, req[p].value[loc[p].idx],
                                 fetched, clock)} :
       \E putOk \in PutAnswers(out.calls) :
            /\ calls' = [calls EXCEPT ![p] = out.calls]
            /\ loc' = [loc EXCEPT
                         ![p].idx = @ + 1,
                         ![p].outs = Append(@,
                             [item |-> req[p].value[loc[p].idx],
                              exc |-> out.exc, calls |-> out.calls,
                              at |-> clock, putOk |-> putOk,
                              fetched |-> IF UsedFetch(out)
                                          THEN fetched ELSE NoFetch])]
            /\ IF ~Caught(out.exc)
               THEN Raise(p)
               ELSE IF loc[p].idx = Len(req[p].value)
               THEN /\ pc' = [pc EXCEPT ![p] = "done"]
                    /\ resp' = [resp EXCEPT ![p] = Accepted]
               ELSE UNCHANGED <<pc, resp>>
    /\ UNCHANGED <<variant, clock, store, lockEx, subscriptions, nextId, nreq, req>>

(***************************************************************************)
(* The response leaves; the handler is free for the next request.          *)
(***************************************************************************)
respond(p) ==
    /\ pc[p] = "done"
    /\ pc' = [pc EXCEPT ![p] = "idle"]
    /\ req' = [req EXCEPT ![p] = NoRequest]
    /\ loc' = [loc EXCEPT ![p] = NoLocals]
    /\ calls' = [calls EXCEPT ![p] = <<>>]
    /\ resp' = [resp EXCEPT ![p] = NoResponse]
    /\ UNCHANGED <<variant, clock, store, lockEx, subscriptions, nextId, nreq>>

(***************************************************************************)
(* Time.  The first request arrives at 0.  The clock is sampled at the     *)
(* instants where the comparisons of trigger_middleware change their       *)
(* outcome, and moves between two requests and between the resync of a     *)
(* trigger and its next_sync.                                              *)
(***************************************************************************)
Instants ==
    {0, MaxDelay, HOURS_BETWEEN_FULLSYNC_AND_RESCUBSCRIBE, HOURS_TO_SUBSCRIBE,
     HOURS_BETWEEN_FULLSYNC_AND_RESCUBSCRIBE + MaxDelay}

Tick ==
    /\ nreq > 0
    /\ \A p \in Procs : pc[p] \in {"idle", "store_data"}
    /\ \E t \in Instants : t > clock /\ clock' = t
    /\ UNCHANGED <<variant, store, lockEx, subscriptions, nextId, nreq,
                   pc, req, loc, calls, resp>>

(***************************************************************************)
(* The service serving one request at a time.                              *)
(***************************************************************************)
Quiet == \A q \in Procs : pc[q] = "idle"

Next ==
    \/ \E p \in {"h1"} : Quiet /\ trigger_middleware(p)
    \/ \E p \in {"h1"} : Quiet /\ handle_subscription_callback(p)
    \/ \E p \in Procs : get_all_users(p)
    \/ \E p \in Procs : update_calendar(p)
    \/ \E p \in Procs : wipe_subscriptions(p)
    \/ \E p \in Procs : register_subscriptions(p)
    \/ \E p \in Procs : store_data(p)
    \/ \E p \in Procs : store_open(p)
    \/ \E p \in Procs : store_lock(p)
    \/ \E p \in Procs : store_dump(p)
    \/ \E p \in Procs : handle_subscription_callback_value(p)
    \/ \E p \in Procs : respond(p)
    \/ Tick

Spec == Init /\ [][Next]_vars

(***************************************************************************)
(* Properties.                                                             *)
(***************************************************************************)
HasPut(made) == \E i \in DOMAIN made : made[i].op = "PUT"

\* The store holds nothing under the key k
KeyAbsent(k) ==
    \/ store.status = "missing"
    \/ store.status = "ok" /\ k \notin DOMAIN store.data

KeyPresent(k) == store.status = "ok" /\ k \in DOMAIN store.data

\* The loop of the callback went on after its i-th item: the next item is
\* up, or the batch is over and the response is the 202
WentOn(p, i) ==
    Len(loc[p].outs) = i =>
        IF i = Len(req[p].value)
        THEN pc[p] = "done" /\ resp[p].status = 202 /\ resp[p].body = ""
        ELSE pc[p] = "callback_value" /\ loc[p].idx = i + 1

\* C1: a callback POST without a validationToken is always answered 202
\* with an empty body, whatever happens to its items (state not found,
\* fetch failure, unknown kind, malformed clientState, missing fields).
C1_CallbackAlwaysAccepted ==
    \A p \in Procs :
        (pc[p] = "done" /\ req[p].kind = "callback"
                        /\ req[p].validationToken = Missing)
        => (resp[p].status = 202 /\ resp[p].body = "")

\* A callback whose first item has a clientState without "^" is answered 500
C1_MalformedItemAnswered500 ==
    \E p \in Procs :
        /\ pc[p] = "done" /\ req[p].kind = "callback"
        /\ req[p].validationToken = Missing
        /\ Len(loc[p].outs) = 1
        /\ loc[p].outs[1].exc = "ValueError"
        /\ resp[p].status = 500

FullResync == <<"users", "calendar", "wipe", "subscribe">>

IsPrefix(a, b) == Len(a) <= Len(b) /\ a = SubSeq(b, 1, Len(a))

AfterResync == {"store_data", "store_open", "store_lock", "store_dump"}

\* C2: a trigger that finds no entry for its key in the store resyncs, in
\* the order directory fetch, calendar pull, wipe, create: it never gets to
\* store_data without the four, and the state it stores has
\* next_sync = now + 23 h.
C2_FirstTriggerResyncs ==
    \A p \in Procs :
        (req[p].kind = "trigger" /\ ~loc[p].found) =>
            /\ IsPrefix(loc[p].phases, FullResync)
            /\ pc[p] \in AfterResync => loc[p].phases = FullResync
            /\ (pc[p] = "done" /\ resp[p].status = 200) =>
                  /\ loc[p].phases = FullResync
                  /\ KeyPresent(loc[p]._hkey)
                  /\ store.data[loc[p]._hkey].next_sync =
                        loc[p].storedAt + HOURS_BETWEEN_FULLSYNC_AND_RESCUBSCRIBE

C2_Witness ==
    \E p \in Procs :
        /\ req[p].kind = "trigger" /\ ~loc[p].found
        /\ pc[p] = "done" /\ resp[p].status = 200
        /\ loc[p].phases = FullResync
        /\ Len(loc[p].created) = 2
        /\ loc[p].storedAt = MaxDelay
        /\ store.data[loc[p]._hkey].next_sync =
              MaxDelay + HOURS_BETWEEN_FULLSYNC_AND_RESCUBSCRIBE

\* C3: a trigger that finds an entry whose next_sync is strictly later
\* than now makes no call, upstream or downstream, and stores the
\* credential and the webhook URLs of the request with the next_sync it
\* found; one that finds now >= next_sync resyncs.
C3_NotDueOnlyRefreshes ==
    \A p \in Procs :
        (req[p].kind = "trigger" /\ loc[p].found) =>
            IF loc[p].was > loc[p].checkedAt
            THEN /\ loc[p].phases = <<>>
                 /\ calls[p] = <<>>
                 /\ loc[p].created = <<>>
                 /\ pc[p] \in AfterResync \cup {"done"}
                 /\ pc[p] = "done" =>
                       /\ resp[p].status = 200
                       /\ KeyPresent(loc[p]._hkey)
                       /\ store.data[loc[p]._hkey] =
                             StateEntry(req[p].authorization,
                                        req[p].calendar_webhook,
                                        req[p].email_webhook, loc[p].was)
            ELSE \/ pc[p] = "get_all_users"
                 \/ Len(loc[p].phases) > 0 /\ loc[p].phases[1] = "users"

C3_Witness ==
    \E p \in Procs :
        /\ req[p].kind = "trigger" /\ loc[p].found
        /\ loc[p].was > loc[p].checkedAt
        /\ pc[p] = "done" /\ resp[p].status = 200
        /\ req[p].authorization = "Bearer 2"
        /\ store.data[loc[p]._hkey].authorization = "Bearer 2"
        /\ store.data[loc[p]._hkey].calendar_webhook = "aa"
        /\ store.data[loc[p]._hkey].next_sync = loc[p].was

\* C4: for every subscription a trigger creates, the suffix in its
\* notification URL and the prefix in its clientState, concatenated as the
\* item handler does, are the key under which the trigger stored its state.
C4_KeyRoundTrip ==
    \A p \in Procs :
        (req[p].kind = "trigger" /\ pc[p] = "done" /\ resp[p].status = 200) =>
            \A i \in DOMAIN loc[p].created :
                LET s == loc[p].created[i]
                    k == ItemKey(ParseRoute(variant, s.notificationUrl).hkey1,
                                 Item(s.clientState, "updated", Missing))
                IN /\ k = loc[p]._hkey
                   /\ Len(k) = DigestHexLen
                   /\ get_data(store, k).kind = "value"
                   /\ get_data(store, k).v.email_webhook = req[p].email_webhook

C4_Witness ==
    \E p \in Procs :
        /\ req[p].kind = "trigger" /\ pc[p] = "done" /\ resp[p].status = 200
        /\ Len(loc[p].created) = 2
        /\ ParseRoute(variant, loc[p].created[2].notificationUrl)
              = Route("events", KeySuffix(loc[p]._hkey))
        /\ Split(loc[p].created[2].clientState, "^")[1] = KeyPrefix(loc[p]._hkey)
        /\ KeyPresent(loc[p]._hkey)

\* C5: an item whose rebuilt key is not in the store makes no upstream
\* fetch and no downstream PUT or DELETE; the loop goes on with the next
\* item, and the callback is answered 202.
C5_UnknownKeyIsBenign ==
    \A p \in Procs :
        req[p].kind = "callback" =>
            \A i \in DOMAIN loc[p].outs :
                LET k == ItemKey(req[p].hkey1, req[p].value[i])
                IN (k # Missing /\ KeyAbsent(k)) =>
                      /\ loc[p].outs[i].calls = <<>>
                      /\ WentOn(p, i)

C5_Witness ==
    \E p \in Procs :
        /\ req[p].kind = "callback" /\ pc[p] = "done"
        /\ resp[p].status = 202
        /\ Len(loc[p].outs) = 2
        /\ ItemKey(req[p].hkey1, req[p].value[1]) # Missing
        /\ KeyAbsent(ItemKey(req[p].hkey1, req[p].value[1]))
        /\ loc[p].outs[1].calls = <<>>
        /\ KeyPresent(ItemKey(req[p].hkey1, req[p].value[2]))
        /\ loc[p].outs[2].calls # <<>>

\* The i-th item of the callback got to the dispatch on the kind: its
\* clientState unpacked, its key was found, and it has an OData id
Dispatched(p, i) ==
    /\ ItemKey(req[p].hkey1, req[p].value[i]) # Missing
    /\ KeyPresent(ItemKey(req[p].hkey1, req[p].value[i]))
    /\ req[p].value[i].odata_id # Missing

\* C6: an item that fails because its fetch fails or because its kind is
\* unknown does not abort the batch: the items are handled in the order of
\* the body, and the loop goes on after the failed one.
C6_ItemFailureDoesNotAbort ==
    \A p \in Procs :
        req[p].kind = "callback" =>
            \A i \in DOMAIN loc[p].outs :
                /\ loc[p].outs[i].item = req[p].value[i]
                /\ ( \/ loc[p].outs[i].fetched = FetchFail
                     \/ /\ req[p].subscription \notin {"messages", "events"}
                        /\ Dispatched(p, i) )
                   => /\ loc[p].outs[i].exc = "MiddlewareException"
                      /\ ~HasPut(loc[p].outs[i].calls)
                      /\ WentOn(p, i)

C6_Witness ==
    \E p \in Procs :
        /\ req[p].kind = "callback" /\ pc[p] = "done"
        /\ resp[p].status = 202
        /\ Len(loc[p].outs) = 2
        /\ loc[p].outs[1].fetched = FetchFail
        /\ loc[p].outs[1].exc = "MiddlewareException"
        /\ HasPut(loc[p].outs[2].calls)

\* C7: a 'deleted' item whose key is in the store makes exactly one call:
\* a DELETE to the email webhook (messages) or to the calendar webhook
\* (events) of the stored state, with id = the last segment of the OData
\* id; it makes no fetch and no PUT.
C7_DeletedItemDeletesOnce ==
    \A p \in Procs :
        req[p].kind = "callback" =>
            \A i \in DOMAIN loc[p].outs :
                (/\ req[p].subscription \in {"messages", "events"}
                 /\ req[p].value[i].changeType = "deleted"
                 /\ Dispatched(p, i)) =>
                    LET entry == store.data[ItemKey(req[p].hkey1, req[p].value[i])]
                        webhook == IF req[p].subscription = "messages"
                                   THEN entry.email_webhook
                                   ELSE entry.calendar_webhook
                        made == loc[p].outs[i].calls
                        id == SubSeq(made[1].url, Len(webhook) + 6,
                                     Len(made[1].url))
                    IN /\ loc[p].outs[i].exc = "none"
                       /\ Len(made) = 1
                       /\ made[1].op = "DELETE"
                       /\ made[1].url = webhook \o "/?id=" \o id
                       /\ Len(id) > 0
                       /\ Seps(id, "/") = {}
                       /\ EndsWith(req[p].value[i].odata_id, "/" \o id)

C7_Witness ==
    \E p \in Procs :
        /\ req[p].kind = "callback" /\ pc[p] = "done"
        /\ req[p].subscription = "events"
        /\ Len(loc[p].outs) = 1
        /\ req[p].value[1].changeType = "deleted"
        /\ Dispatched(p, 1)
        /\ loc[p].outs[1].calls =
              <<Call("DELETE", "aa/?id=AAMkE1", NoBody)>>

\* C8: on the message path the PUT to the email webhook is made if and
\* only if the message is from the manager or its importance is 'high',
\* where a message is from the manager when the manager's mail equals the
\* sender's address without regard to case.
C8_MessageForwardedIff ==
    \A p \in Procs :
        req[p].kind = "callback" =>
            \A i \in DOMAIN loc[p].outs :
                loc[p].outs[i].fetched.kind = "message" =>
                    LET got == loc[p].outs[i].fetched
                        made == loc[p].outs[i].calls
                        entry == store.data[ItemKey(req[p].hkey1, req[p].value[i])]
                        manager == Split(req[p].value[i].clientState, "^")[3]
                        isFromManager == LowerStr(manager) = LowerStr(got.from)
                    IN /\ HasPut(made) <=> (isFromManager \/ got.importance = "high")
                       /\ \A j \in DOMAIN made :
                             made[j].op = "PUT" =>
                                /\ made[j].url = entry.email_webhook
                                /\ made[j].body.is_from_manager = isFromManager

C8_Witness ==
    \E p \in Procs :
        /\ req[p].kind = "callback" /\ pc[p] = "done"
        /\ Len(loc[p].outs) = 1
        /\ loc[p].outs[1].fetched = Message("AAMkM1", "M@co", "normal")
        /\ Split(req[p].value[1].clientState, "^")[3] = "m@co"
        /\ HasPut(loc[p].outs[1].calls)

\* The start is within one day before now and 8 days after it, bounds
\* included
InWindow(start, now) ==
    /\ start >= now - HoursPerDay
    /\ start <= now + CALENDAR_DAYS_TO_CACHE * HoursPerDay

\* C9: an event is PUT to the calendar webhook if and only if its start is
\* in [now - 1 day, now + 8 days], on the notification path and in the
\* calendar pull of a resync alike.
C9_EventForwardedIff ==
    \A p \in Procs :
        /\ req[p].kind = "callback" =>
              \A i \in DOMAIN loc[p].outs :
                  loc[p].outs[i].fetched.kind = "event" =>
                      (HasPut(loc[p].outs[i].calls)
                         <=> InWindow(loc[p].outs[i].fetched.event.start,
                                      loc[p].outs[i].at))
        /\ (req[p].kind = "trigger" /\ pc[p] = "wipe_subscriptions") =>
              \A u \in DOMAIN loc[p].pulled :
                  \A j \in DOMAIN loc[p].pulled[u] :
                      (\E c \in DOMAIN calls[p] :
                           /\ calls[p][c].op = "PUT"
                           /\ calls[p][c].url = req[p].calendar_webhook
                           /\ calls[p][c].body.id = loc[p].pulled[u][j].id
                           /\ calls[p][c].body.owner = loc[p].users[u].mail)
                      <=> InWindow(loc[p].pulled[u][j].start, loc[p].pulledAt)

C9_Witness ==
    \E p \in Procs :
        /\ req[p].kind = "callback" /\ pc[p] = "done"
        /\ Len(loc[p].outs) = 2
        /\ loc[p].outs[1].fetched.kind = "event"
        /\ loc[p].outs[1].fetched.event.start =
              loc[p].outs[1].at + CALENDAR_DAYS_TO_CACHE * HoursPerDay
        /\ HasPut(loc[p].outs[1].calls)
        /\ loc[p].outs[2].fetched.kind = "event"
        /\ loc[p].outs[2].fetched.event.start =
              loc[p].outs[2].at - HoursPerDay - 1
        /\ ~HasPut(loc[p].outs[2].calls)

\* C10: a callback with a validationToken is answered 200 with the token
\* as plain text; no item of its body is handled (so the store is not
\* read) and no call is made, upstream or downstream.
C10_ValidationHandshake ==
    \A p \in Procs :
        (req[p].kind = "callback" /\ req[p].validationToken # Missing) =>
            /\ pc[p] = "done"
            /\ resp[p].status = 200
            /\ resp[p].body = req[p].validationToken
            /\ StartsWith(resp[p].mimetype, "text/plain")
            /\ loc[p].outs = <<>>
            /\ calls[p] = <<>>

C10_Witness ==
    \E p \in Procs :
        /\ req[p].kind = "callback" /\ req[p].validationToken = "tok-1"
        /\ Len(req[p].value) = 1
        /\ KeyPresent(ItemKey(req[p].hkey1, req[p].value[1]))
        /\ resp[p] = Response("tok-1", 200, "text/plain; charset=utf-8")

(***************************************************************************)
(* The pure functions on their own: the key derivation and                 *)
(* extract_meetinglink, applied to inputs drawn from bounded sets.         *)
(***************************************************************************)
MaxWebhookLen == 2
MaxWords == 2

RECURSIVE StringsUpTo(_)
StringsUpTo(n) ==
    IF n = 0 THEN {""}
    ELSE StringsUpTo(n - 1)
         \cup {s \o c : s \in StringsUpTo(n - 1), c \in {"a", "b"}}

\* The webhook URLs given to the derivation: the non-empty strings
Webhooks == StringsUpTo(MaxWebhookLen) \ {""}

\* The words the texts are made of
Words == {"A^Join",
          "https://evil.example.com/x",
          "https://foo.webex.com/meet",
          "https://teams.microsoft.com/l/1",
          "https://webex.com/a",
          "http://gotomeet.me/1",
          "https://gotomeet.me",
          "https://evilwebex.com/",
          "at:https://global.gotomeeting.com/join/9",
          "https://www.gotomeet.me?x=1",
          "https://teams.microsoft.com.evil.net/l"}

RECURSIVE JoinWords(_, _)
JoinWords(ws, i) ==
    IF i > Len(ws) THEN ""
    ELSE IF i = Len(ws) THEN ws[i]
    ELSE ws[i] \o " " \o JoinWords(ws, i + 1)

KeyInput(calendar_webhook, email_webhook) ==
    [kind |-> "key", calendar_webhook |-> calendar_webhook,
     email_webhook |-> email_webhook]

TextInput(ws) == [kind |-> "text", words |-> ws, astring |-> JoinWords(ws, 1)]

PureInputs ==
    {KeyInput(a, b) : a \in Webhooks, b \in Webhooks}
    \cup {TextInput(ws) : ws \in SeqsUpTo(Words, MaxWords)}

InitPure ==
    /\ variant \in Variants
    /\ clock = 0
    /\ store = StoreOf("ok", EmptyDict)
    /\ lockEx = "none"
    /\ subscriptions = <<>>
    /\ nextId = 1
    /\ nreq = 0
    /\ pc = [p \in Procs |-> "idle"]
    /\ req \in {[p \in Procs |-> IF p = "h1" THEN i ELSE NoRequest] :
                  i \in PureInputs}
    /\ loc = [p \in Procs |-> NoLocals]
    /\ calls = [p \in Procs |-> <<>>]
    /\ resp = [p \in Procs |-> NoResponse]

\* _hkey = sha512(calendar_webhook + email_webhook), hkey = its two parts
derive_hkey(p) ==
    /\ pc[p] = "idle"
    /\ req[p].kind = "key"
    /\ \E _hkey \in {DeriveKey(req[p].calendar_webhook, req[p].email_webhook)} :
         loc' = [loc EXCEPT ![p] =
                   [kind |-> "key", _hkey |-> _hkey,
                    hkey |-> <<KeyPrefix(_hkey), KeySuffix(_hkey)>>]]
    /\ pc' = [pc EXCEPT ![p] = "done"]
    /\ UNCHANGED <<variant, clock, store, lockEx, subscriptions, nextId, nreq,
                   req, calls, resp>>

\* meetingLink = extract_meetinglink(astring)
call_extract_meetinglink(p) ==
    /\ pc[p] = "idle"
    /\ req[p].kind = "text"
    /\ loc' = [loc EXCEPT ![p] =
                 [kind |-> "text",
                  meetingLink |-> extract_meetinglink(req[p].astring)]]
    /\ pc' = [pc EXCEPT ![p] = "done"]
    /\ UNCHANGED <<variant, clock, store, lockEx, subscriptions, nextId, nreq,
                   req, calls, resp>>

NextPure ==
    \/ \E p \in Procs : derive_hkey(p)
    \/ \E p \in Procs : call_extract_meetinglink(p)

SpecPure == InitPure /\ [][NextPure]_vars

\* C11: the key derivation is order-sensitive: for all non-empty webhook
\* URLs a # b, the key derived from (a, b) differs from the key derived
\* from (b, a).
C11_KeyOrderSensitive ==
    \A p \in Procs :
       (/\ pc[p] = "done"
        /\ loc[p].kind = "key"
        /\ req[p].calendar_webhook # req[p].email_webhook)
       => loc[p]._hkey
            # DeriveKey(req[p].email_webhook, req[p].calendar_webhook)

\* Two different non-empty webhook URLs whose two orders concatenate to the
\* same string, and so to the same key
C11_SwappedPairCollides ==
    \E p \in Procs :
       /\ pc[p] = "done"
       /\ loc[p].kind = "key"
       /\ req[p].calendar_webhook = "a"
       /\ req[p].email_webhook = "aa"
       /\ loc[p]._hkey = DeriveKey("aa", "a")

\* The users of the listing that have a mail, in the order of the listing
Mailed(users) == SelectSeq(users, LAMBDA u : u.mail # PyNone)

\* The register_subscriptions step of handler p has just run
Registered(p) ==
    /\ loc[p].kind = "trigger"
    /\ Len(loc[p].phases) = 4
    /\ \/ pc[p] = "store_data"
       \/ pc[p] = "done" /\ ~loc[p].resync

\* C12: register_subscriptions issues, for every user with a mail, exactly
\* two creation requests, 'messages' then 'events', whose notification URL
\* is the own base URL, the callback path, the kind and the key suffix and
\* whose clientState is key prefix ^ owner mail ^ manager mail; for a user
\* without a mail it issues none and goes on with the next user.
C12_TwoCreationsPerMailedUser ==
    \A p \in Procs :
       Registered(p) =>
          /\ pc[p] = "store_data"
          /\ Len(calls[p]) = 2 * Len(Mailed(loc[p].users))
          /\ \A i \in 1..Len(Mailed(loc[p].users)) :
               \A j \in 1..2 :
                  LET u == Mailed(loc[p].users)[i]
                      c == calls[p][2 * (i - 1) + j]
                  IN /\ c.op = "POST"
                     /\ c.body.notificationUrl =
                           SUBSCRIPTION_CALLBACK_URL(variant) \o "/"
                           \o SUBSCRIPTION_CALLBACK_PATH \o "/"
                           \o SubscriptionKinds[j] \o "/" \o loc[p].hkey[2]
                     /\ c.body.clientState =
                           loc[p].hkey[1] \o "^" \o u.mail \o "^"
                           \o u.manager_mail

\* app.py: the listing has a user without a mail before one with a mail;
\* the request ends in a 500 and nothing was requested for either
C12_NoneMailEndsRegistration ==
    \E p \in Procs :
       /\ variant = "app"
       /\ Registered(p)
       /\ pc[p] = "done"
       /\ resp[p].status = 500
       /\ Len(loc[p].users) = 2
       /\ loc[p].users[1].mail = PyNone
       /\ loc[p].users[2].mail # PyNone
       /\ calls[p] = <<>>

\* The notification URL of the subscription starts with the own base URL
OwnUrl(subscription) ==
    StartsWith(subscription.notificationUrl, SUBSCRIPTION_CALLBACK_URL(variant))

\* C13: wipe_subscriptions deletes only subscriptions whose notification URL
\* starts with the own callback base URL: in every step, a subscription
\* whose URL does not start with it stays as it is, and every delete request
\* of a wipe names a subscription whose URL starts with it.
C13_ForeignSubscriptionsKept ==
    [][/\ \A i \in DOMAIN subscriptions :
            ~OwnUrl(subscriptions[i])
            => \E j \in DOMAIN subscriptions' :
                  subscriptions'[j] = subscriptions[i]
       /\ \A p \in Procs :
            (pc[p] = "wipe_subscriptions" /\ pc'[p] # "wipe_subscriptions")
            => \A k \in DOMAIN calls'[p] :
                  calls'[p][k].op = "DELETE"
                  => \E i \in DOMAIN subscriptions :
                        /\ OwnUrl(subscriptions[i])
                        /\ calls'[p][k].url =
                              SubscriptionUrl(variant, subscriptions[i].id)
      ]_vars

\* A wipe has deleted the subscription left over under the own base URL and
\* the subscription of another service is still there
C13_Witness ==
    \E p \in Procs :
       /\ pc[p] = "register_subscriptions"
       /\ \E k \in DOMAIN calls[p] :
             /\ calls[p][k].op = "DELETE"
             /\ calls[p][k].url
                  = SubscriptionUrl(variant, StaleSubscription(variant).id)
       /\ \E i \in DOMAIN subscriptions : subscriptions[i] = ForeignSubscription
       /\ ~\E i \in DOMAIN subscriptions :
              subscriptions[i] = StaleSubscription(variant)

\* The words of Words that hold a URL whose host is on the allow-list or
\* ends with ".webex.com", with that URL
QualifyingUrl(w) ==
    CASE w = "https://foo.webex.com/meet" -> w
      [] w = "https://teams.microsoft.com/l/1" -> w
      [] w = "https://gotomeet.me" -> w
      [] w = "at:https://global.gotomeeting.com/join/9"
            -> "https://global.gotomeeting.com/join/9"
      [] w = "https://www.gotomeet.me?x=1" -> w
      [] OTHER -> PyNone

RECURSIVE FirstQualifying(_, _)
FirstQualifying(ws, i) ==
    IF i > Len(ws) THEN PyNone
    ELSE IF QualifyingUrl(ws[i]) # PyNone THEN QualifyingUrl(ws[i])
    ELSE FirstQualifying(ws, i + 1)

\* C14: extract_meetinglink returns the first https:// URL of the text, in
\* order of appearance, whose host is gotomeet.me, www.gotomeet.me,
\* global.gotomeeting.com or teams.microsoft.com or ends with .webex.com,
\* and no value when no URL qualifies; URLs with other hosts before or
\* after it do not change the result.
C14_FirstAllowedLink ==
    \A p \in Procs :
       (pc[p] = "done" /\ loc[p].kind = "text")
       => loc[p].meetingLink = FirstQualifying(req[p].words, 1)

\* A text with a URL of another host before the qualifying one
C14_Witness ==
    \E p \in Procs :
       /\ pc[p] = "done"
       /\ loc[p].kind = "text"
       /\ req[p].astring
            = "https://evil.example.com/x https://foo.webex.com/meet"
       /\ loc[p].meetingLink = "https://foo.webex.com/meet"

\* The clientState of the item is there and has not exactly two "^"
MalformedClientState(item) ==
    /\ item.clientState # Missing
    /\ Cardinality(Seps(item.clientState, "^")) # 2

\* C15: an item whose clientState does not hold exactly two "^" is an error
\* of that item alone, caught at the level of the batch: it makes no call to
\* a cache webhook, the items after it are still handled, and the answer is
\* the 202.
C15_MalformedClientStateSwallowed ==
    \A p \in Procs :
        req[p].kind = "callback" =>
            \A i \in DOMAIN loc[p].outs :
                MalformedClientState(req[p].value[i])
                => /\ loc[p].outs[i].calls = <<>>
                   /\ WentOn(p, i)

\* A batch of two items whose first has a clientState without "^": the
\* request ends in a 500 and the second item is never handled
C15_MalformedItemEndsBatch ==
    \E p \in Procs :
        /\ req[p].kind = "callback" /\ pc[p] = "done"
        /\ Len(req[p].value) = 2
        /\ MalformedClientState(req[p].value[1])
        /\ ~MalformedClientState(req[p].value[2])
        /\ Len(loc[p].outs) = 1
        /\ loc[p].outs[1].calls = <<>>
        /\ resp[p].status = 500

\* The delete requests among the calls
Deletes(made) == {k \in DOMAIN made : made[k].op = "DELETE"}

\* C16: when a delete of the wipe is answered with a failure, the wipe stops
\* at it and the trigger fails: the subscriptions deleted are those of the
\* deletes before it, none is created, the store stays as it was, and the
\* key is still due for a resync (no entry, or a next_sync that has passed),
\* so the next trigger for the key resyncs again.
C16_FailedDeleteEndsTrigger ==
    [][\A p \in Procs :
          (pc[p] = "wipe_subscriptions" /\ pc'[p] = "done")
          => /\ resp'[p].status = 500
             /\ store' = store
             /\ calls'[p][Len(calls'[p])].op = "DELETE"
             /\ Len(subscriptions')
                  = Len(subscriptions) - (Cardinality(Deletes(calls'[p])) - 1)
             /\ \A j \in DOMAIN subscriptions' :
                   \E i \in DOMAIN subscriptions :
                      subscriptions[i] = subscriptions'[j]
             /\ \A k \in Deletes(calls'[p]) \ {Len(calls'[p])} :
                   ~\E j \in DOMAIN subscriptions' :
                       calls'[p][k].url
                         = SubscriptionUrl(variant, subscriptions'[j].id)
             /\ \/ store'.status = "missing"
                \/ loc'[p]._hkey \notin DOMAIN store'.data
                \/ store'.data[loc'[p]._hkey].next_sync <= clock'
      ]_vars

\* A wipe whose second delete failed: the first subscription is gone, the
\* second and what comes after it are still there, the answer is a 500
C16_Witness ==
    \E p \in Procs :
       /\ loc[p].kind = "trigger"
       /\ pc[p] = "done"
       /\ resp[p].status = 500
       /\ loc[p].phases = <<"users", "calendar", "wipe">>
       /\ Cardinality(Deletes(calls[p])) = 2
       /\ \E j \in DOMAIN subscriptions :
             calls[p][Len(calls[p])].url
               = SubscriptionUrl(variant, subscriptions[j].id)
       /\ loc[p].created = <<>>

\* C17: a creation request that is answered with a failure is not fatal:
\* register_subscriptions still makes the request of every (user, kind)
\* pair, and the trigger goes on to store next_sync = now + 23 h and to
\* answer 200.
C17_FailedCreationNotFatal ==
    \A p \in Procs :
       (/\ loc[p].kind = "trigger"
        /\ loc[p].phases = FullResync
        /\ loc[p].resync
        /\ Len(loc[p].created) < 2 * Len(Mailed(loc[p].users)))
       => /\ pc[p] \in AfterResync \cup {"done"}
          /\ pc[p] = "store_data"
             => /\ Len(calls[p]) = 2 * Len(Mailed(loc[p].users))
                /\ \A k \in DOMAIN calls[p] :
                      /\ calls[p][k].op = "POST"
                      /\ calls[p][k].body.resource
                           = Resource(variant,
                                      Mailed(loc[p].users)[(k + 1) \div 2],
                                      SubscriptionKinds[2 - (k % 2)])
          /\ pc[p] = "done"
             => /\ resp[p] = OkResponse
                /\ KeyPresent(loc[p]._hkey)
                /\ store.data[loc[p]._hkey].next_sync
                     = loc[p].storedAt + HOURS_BETWEEN_FULLSYNC_AND_RESCUBSCRIBE

\* The first of the two creation requests for a user failed: the second was
\* made and created, and the trigger ended with 200
C17_Witness ==
    \E p \in Procs :
       /\ loc[p].kind = "trigger"
       /\ pc[p] = "done"
       /\ resp[p].status = 200
       /\ loc[p].resync
       /\ Len(Mailed(loc[p].users)) = 1
       /\ Len(loc[p].created) = 1
       /\ EndsWith(loc[p].created[1].notificationUrl,
                   "/events/" \o loc[p].hkey[2])

(***************************************************************************)
(* The store under concurrent triggers.  Both handlers serve requests at   *)
(* the same time; the store already holds an entry for every key, written  *)
(* by triggers at 0 that found no user, so no trigger is due for a resync  *)
(* and each one goes from the lookup straight to store_data.               *)
(***************************************************************************)
\* The entry an earlier trigger stored for the two webhooks
EarlierEntry(calendar_webhook, email_webhook) ==
    StateEntry("Bearer 0", calendar_webhook, email_webhook,
               HOURS_BETWEEN_FULLSYNC_AND_RESCUBSCRIBE)

OtherKey == DeriveKey("b", "b")

EarlierStore ==
    DictPut(DictPut(DictPut(EmptyDict,
                            DeriveKey("a", "aa"), EarlierEntry("a", "aa")),
                    DeriveKey("a", "b"), EarlierEntry("a", "b")),
            OtherKey, EarlierEntry("b", "b"))

InitStore ==
    /\ variant \in Variants
    /\ clock \in {0, MaxDelay}
    /\ store = StoreOf("ok", EarlierStore)
    /\ lockEx = "none"
    /\ subscriptions = <<ForeignSubscription>>
    /\ nextId = 1
    /\ nreq = 0
    /\ pc = [p \in Procs |-> "idle"]
    /\ req = [p \in Procs |-> NoRequest]
    /\ loc = [p \in Procs |-> NoLocals]
    /\ calls = [p \in Procs |-> <<>>]
    /\ resp = [p \in Procs |-> NoResponse]

NextStore ==
    \/ \E p \in Procs : trigger_middleware(p)
    \/ \E p \in Procs : store_data(p)
    \/ \E p \in Procs : store_open(p)
    \/ \E p \in Procs : store_lock(p)
    \/ \E p \in Procs : store_dump(p)
    \/ \E p \in Procs : respond(p)

SpecStore == InitStore /\ [][NextStore]_vars

\* Both handlers have served a trigger, each for its own key, and answered 200
BothCompleted ==
    /\ \A p \in Procs :
          /\ pc[p] = "done"
          /\ req[p].kind = "trigger"
          /\ resp[p].status = 200
    /\ loc["h1"]._hkey # loc["h2"]._hkey

\* C18: under every interleaving of two concurrent triggers for different
\* keys, once both have completed the store holds the entry written for
\* the one key and the entry written for the other, and every other entry
\* as it was.
C18_BothEntriesStored ==
    BothCompleted =>
       /\ store.status = "ok"
       /\ \A p \in Procs :
             /\ loc[p]._hkey \in DOMAIN store.data
             /\ store.data[loc[p]._hkey]
                  = StateEntry(req[p].authorization, req[p].calendar_webhook,
                               req[p].email_webhook, loc[p].was)
       /\ OtherKey \in DOMAIN store.data
       /\ store.data[OtherKey] = EarlierEntry("b", "b")

\* application.py: both triggers have completed and the entry of the first
\* is the one from before its write
C18_LostUpdate ==
    /\ variant = "application"
    /\ BothCompleted
    /\ store.status = "ok"
    /\ store.data[loc["h1"]._hkey]
         = EarlierEntry(req["h1"].calendar_webhook, req["h1"].email_webhook)
    /\ store.data[loc["h2"]._hkey].authorization = req["h2"].authorization

\* The number of PUT requests of one forward: five in app.py, one in
\* application.py
FixedAttempts == IF variant = "app" THEN PutAttemptsApp ELSE PutAttemptsApplication

\* The events of the calendar pull whose start is in the window
Forwarded(p) ==
    UNION {{<<u, j>> : j \in {k \in DOMAIN loc[p].pulled[u] :
                                  InWindow(loc[p].pulled[u][k].start,
                                           loc[p].pulledAt)}} :
           u \in DOMAIN loc[p].pulled}

\* C19: every forward of a message or of an event makes the same fixed
\* number of PUT requests, whatever the webhook answers to any of them: it
\* neither stops early when one succeeds nor adds one when they fail, and a
\* failure raises nothing (the loop of the callback goes on, the trigger
\* goes on to the wipe).
C19_FixedPutAttempts ==
    \A p \in Procs :
        /\ req[p].kind = "callback" =>
              \A i \in DOMAIN loc[p].outs :
                  HasPut(loc[p].outs[i].calls) =>
                      /\ Cardinality(Puts(loc[p].outs[i].calls)) = FixedAttempts
                      /\ \A k, l \in Puts(loc[p].outs[i].calls) :
                            loc[p].outs[i].calls[k] = loc[p].outs[i].calls[l]
                      /\ loc[p].outs[i].exc = "none"
                      /\ WentOn(p, i)
        /\ (req[p].kind = "trigger" /\ Len(loc[p].phases) = 2) =>
              /\ pc[p] = "wipe_subscriptions"
              /\ Cardinality(Puts(calls[p]))
                   = FixedAttempts * Cardinality(Forwarded(p))

\* A message was forwarded and every PUT was answered with a failure
C19_Witness ==
    \E p \in Procs :
        /\ req[p].kind = "callback" /\ pc[p] = "done"
        /\ resp[p].status = 202
        /\ \E i \in DOMAIN loc[p].outs :
              /\ loc[p].outs[i].fetched.kind = "message"
              /\ HasPut(loc[p].outs[i].calls)
              /\ ~loc[p].outs[i].putOk

\* C20: in the clientState of every subscription that register_subscriptions
\* creates, the owner mail and the manager mail are both lower-case,
\* whatever the case of the mails the directory returned; the manager mail
\* may be empty.
C20_ClientStateMailsLowerCase ==
    \A p \in Procs :
        loc[p].kind = "trigger" =>
            \A k \in DOMAIN loc[p].created :
                \E f \in {Split(loc[p].created[k].clientState, "^")} :
                    /\ Len(f) = 3
                    /\ f[2] = LowerStr(f[2])
                    /\ f[3] = LowerStr(f[3])

\* The directory lists the mail "U@co" with the manager mail "M@co": the
\* subscription created carries "U@co" as it came and "m@co"
C20_OwnerMailKeepsCase ==
    \E p \in Procs :
        /\ loc[p].kind = "trigger"
        /\ \E u \in DOMAIN loc[p].users :
              /\ loc[p].users[u].mail = "U@co"
              /\ loc[p].users[u].manager_mail = "m@co"
        /\ \E k \in DOMAIN loc[p].created :
              loc[p].created[k].clientState
                = loc[p].hkey[1] \o "^U@co^m@co"

\* C21: when the request for the user list fails, get_all_users raises and
\* the trigger ends there: no calendar pull, no wipe, no creation, the store
\* as it was, a 500; likewise a failed listing of the subscriptions makes
\* wipe_subscriptions raise.
C21_FailedListingAbortsTrigger ==
    \A p \in Procs :
        loc[p].kind = "trigger" =>
            /\ ~loc[p].usersOk
               => /\ loc[p].phases = <<"users">>
                  /\ pc[p] = "done"
                  /\ resp[p].status = 500
            /\ ~loc[p].listingOk
               => /\ loc[p].phases = <<"users", "calendar", "wipe">>
                  /\ pc[p] = "done"
                  /\ resp[p].status = 500

\* The request for the user list failed, and the trigger went through the
\* wipe, which deleted the subscription left under the own base URL, made no
\* subscription, stored next_sync = now + 23 h and answered 200
C21_FailedUserListCompletes ==
    \E p \in Procs :
        /\ loc[p].kind = "trigger"
        /\ ~loc[p].usersOk
        /\ loc[p].users = <<>>
        /\ loc[p].phases = FullResync
        /\ pc[p] = "done"
        /\ resp[p].status = 200
        /\ loc[p].created = <<>>
        /\ ~\E i \in DOMAIN subscriptions : OwnUrl(subscriptions[i])
        /\ store.data[loc[p]._hkey].next_sync
             = loc[p].storedAt + HOURS_BETWEEN_FULLSYNC_AND_RESCUBSCRIBE

(***************************************************************************)
(* Triggers that overlap in time: both handlers serve trigger requests at  *)
(* the same time, from the first request on.                               *)
(***************************************************************************)
NextOverlap ==
    \/ \E p \in Procs : trigger_middleware(p)
    \/ \E p \in Procs : get_all_users(p)
    \/ \E p \in Procs : update_calendar(p)
    \/ \E p \in Procs : wipe_subscriptions(p)
    \/ \E p \in Procs : register_subscriptions(p)
    \/ \E p \in Procs : store_data(p)
    \/ \E p \in Procs : store_open(p)
    \/ \E p \in Procs : store_lock(p)
    \/ \E p \in Procs : store_dump(p)
    \/ \E p \in Procs : respond(p)

SpecOverlap == Init /\ [][NextOverlap]_vars

\* No trigger request is being served
NoTriggerInProgress == \A p \in Procs : pc[p] \in {"idle", "done"}

\* C22: whenever no trigger is in progress, the upstream service holds at
\* most one subscription per user and kind (its resource) among those whose
\* notification URL starts with the own callback base, also after triggers
\* that overlapped in time.
C22_NoDoubleSubscription ==
    NoTriggerInProgress =>
        \A i, j \in DOMAIN subscriptions :
            (/\ i # j
             /\ OwnUrl(subscriptions[i])
             /\ OwnUrl(subscriptions[j]))
            => subscriptions[i].resource # subscriptions[j].resource

\* Two triggers overlapped: each listed the subscriptions without a failure
\* and wiped before either created, then each created its two; the user has
\* two subscriptions to the messages
C22_OverlapDoubles ==
    /\ \A p \in Procs :
          /\ pc[p] = "done"
          /\ loc[p].kind = "trigger"
          /\ resp[p].status = 200
          /\ loc[p].usersOk
          /\ loc[p].listingOk
          /\ Len(loc[p].created) = 2
    /\ \E i, j \in DOMAIN subscriptions :
          /\ i # j
          /\ subscriptions[i] = loc["h1"].created[1]
          /\ subscriptions[j] = loc["h2"].created[1]
          /\ subscriptions[i].resource = subscriptions[j].resource

\* The key a subscription of this service carries: the prefix of its
\* clientState and the suffix of its notification URL
KeyOf(subscription) ==
    RebuildKey(Split(subscription.clientState, "^")[1],
               ParseRoute(variant, subscription.notificationUrl).hkey1)

\* The store holds the key with a next_sync that is still to come
Synced(k) == KeyPresent(k) /\ store.data[k].next_sync > clock

\* C23: the subscriptions of a synced key survive the resyncs of other
\* keys: a subscription of this service that has not expired, whose key is
\* in the store with next_sync in the future, is still there after every
\* step of a trigger for another key.
C23_SubscriptionsSurviveOtherResync ==
    [][\A i \in DOMAIN subscriptions :
          (/\ OwnUrl(subscriptions[i])
           /\ subscriptions[i].expirationDateTime > clock
           /\ Synced(KeyOf(subscriptions[i]))
           /\ \A p \in Procs :
                 loc[p].kind = "trigger"
                 => loc[p]._hkey # KeyOf(subscriptions[i]))
          => \E j \in DOMAIN subscriptions' :
                subscriptions'[j] = subscriptions[i]
      ]_vars

\* The wipe of a trigger for one key has deleted the first subscription that
\* the resync of another key created; that key is in the store with
\* next_sync in the future and no subscription carries its suffix
C23_OtherKeyWiped ==
    \E p \in Procs :
        /\ pc[p] = "register_subscriptions"
        /\ \E c \in DOMAIN calls[p] :
              /\ calls[p][c].op = "DELETE"
              /\ calls[p][c].url = SubscriptionUrl(variant, "1")
        /\ \E k \in DOMAIN store.data :
              /\ k # loc[p]._hkey
              /\ store.data[k].next_sync > clock
              /\ ~\E i \in DOMAIN subscriptions :
                     EndsWith(subscriptions[i].notificationUrl,
                              "/" \o KeySuffix(k))

\* The subscriptions of this service that carry the key k
SubscriptionsOf(k) ==
    {i \in DOMAIN subscriptions :
        OwnUrl(subscriptions[i]) /\ KeyOf(subscriptions[i]) = k}

\* C24: subscriptions do not expire before the next resync is due: while the
\* next_sync stored for a key is later than now, the subscriptions that the
\* most recent resync of the key created (those of the key with the latest
\* expiration) expire later than now.
C24_SubscriptionsOutliveNextSync ==
    \A k \in (IF store.status = "ok" THEN DOMAIN store.data ELSE {}) :
        store.data[k].next_sync > clock
        => \A i \in SubscriptionsOf(k) :
              (\A j \in SubscriptionsOf(k) :
                  subscriptions[j].expirationDateTime
                    <= subscriptions[i].expirationDateTime)
              => subscriptions[i].expirationDateTime > clock

\* register_subscriptions ran at 0 and took MaxDelay hours: the subscriptions
\* expire at 24, next_sync is 23 + MaxDelay, and it is 24 o'clock
C24_ExpiredBeforeNextSync ==
    /\ clock = HOURS_TO_SUBSCRIBE
    /\ store.status = "ok"
    /\ \E k \in DOMAIN store.data :
          /\ store.data[k].next_sync
               = MaxDelay + HOURS_BETWEEN_FULLSYNC_AND_RESCUBSCRIBE
          /\ store.data[k].next_sync > clock
          /\ SubscriptionsOf(k) # {}
          /\ \A i \in SubscriptionsOf(k) :
                subscriptions[i].expirationDateTime = HOURS_TO_SUBSCRIBE

\* C25: a read of the store that runs while a store_data call is under way
\* sees the whole mapping from before the write or the whole mapping after
\* it: with every key in the store before and after each write, every
\* trigger finds its key and none fails.
C25_ReadSeesCompleteStore ==
    \A p \in Procs :
        loc[p].kind = "trigger" =>
            /\ loc[p].found
            /\ pc[p] = "done" => resp[p].status = 200

\* application.py: one handler has opened the file for writing, which
\* emptied it, and has not written yet; the other has read the empty file
\* and failed
C25_ReadOfTruncatedFile ==
    \E p, q \in Procs :
        /\ variant = "application"
        /\ pc[p] \in {"store_lock", "store_dump"}
        /\ store.status = "empty"
        /\ loc[q].kind = "trigger"
        /\ pc[q] = "done"
        /\ ~loc[q].found
        /\ loc[q].phases = <<>>
        /\ resp[q].status = 500

\* Handler p has completed a trigger, and it is the most recent one that
\* completed for its key: every request made so far is still with its
\* handler, and the other handler has none for that key
MostRecentFor(p) ==
    /\ loc[p].kind = "trigger"
    /\ pc[p] = "done"
    /\ resp[p].status = 200
    /\ nreq = Cardinality({q \in Procs : pc[q] # "idle"})
    /\ \A q \in Procs \ {p} :
          loc[q].kind = "trigger" => loc[q]._hkey # loc[p]._hkey

\* C26: every entry of the store is under the key that is the digest of its
\* two webhook URLs, and its authorization is the one of the most recent
\* trigger that completed for the key.
C26_StoreConsistent ==
    /\ store.status = "ok"
       => \A k \in DOMAIN store.data :
             k = Digest(store.data[k].calendar_webhook
                        \o store.data[k].email_webhook)
    /\ \A p \in Procs :
          MostRecentFor(p)
          => /\ KeyPresent(loc[p]._hkey)
             /\ store.data[loc[p]._hkey].authorization = req[p].authorization

\* application.py: the trigger of h1 has completed with its Authorization,
\* h2 has completed for another key, and the entry of h1's key carries the
\* Authorization of an earlier trigger
C26_StaleAuthorization ==
    /\ variant = "application"
    /\ MostRecentFor("h1")
    /\ MostRecentFor("h2")
    /\ store.status = "ok"
    /\ req["h1"].authorization = "Bearer 1"
    /\ store.data[loc["h1"]._hkey].authorization = "Bearer 0"

\* The mapping the store holds, or is about to hold again: while a handler
\* has the file open for writing, the mapping it is going to dump
Mapping ==
    IF store.status = "ok" THEN store.data
    ELSE IF \E p \in Procs : pc[p] \in {"store_lock", "store_dump"}
    THEN loc[CHOOSE p \in Procs : pc[p] \in {"store_lock", "store_dump"}].data
    ELSE EmptyDict

\* C27: for triggers of one key handled one after another, the stored
\* next_sync never decreases, and a trigger that arrives before the stored
\* next_sync (the end of the previous resync + 23 h) does not resync: the
\* value stored after a resync is the time at its end + 23 h, every other
\* write keeps the value, and a resync starts only at or after the value.
C27_NextSyncMonotone ==
    [][/\ \A k \in DOMAIN Mapping :
            /\ k \in DOMAIN Mapping'
            /\ Mapping'[k].next_sync >= Mapping[k].next_sync
            /\ Mapping'[k].next_sync # Mapping[k].next_sync
               => Mapping'[k].next_sync
                    = clock + HOURS_BETWEEN_FULLSYNC_AND_RESCUBSCRIBE
       /\ \A p \in Procs :
            (pc[p] = "idle" /\ loc'[p].kind = "trigger")
            => \/ pc'[p] = "store_data"
               \/ loc'[p]._hkey \notin DOMAIN Mapping
               \/ clock >= Mapping[loc'[p]._hkey].next_sync
      ]_vars

\* The second resync of a key: the first ended at 0 or MaxDelay, the trigger
\* found the next_sync it stored and arrived at or after it
C27_Witness ==
    \E p \in Procs :
        /\ loc[p].kind = "trigger"
        /\ loc[p].found
        /\ loc[p].was \in {HOURS_BETWEEN_FULLSYNC_AND_RESCUBSCRIBE,
                           HOURS_BETWEEN_FULLSYNC_AND_RESCUBSCRIBE + MaxDelay}
        /\ loc[p].checkedAt >= loc[p].was
        /\ loc[p].phases = FullResync
        /\ pc[p] = "done"
        /\ resp[p].status = 200
        /\ store.data[loc[p]._hkey].next_sync
             >= loc[p].was + HOURS_BETWEEN_FULLSYNC_AND_RESCUBSCRIBE

\* The handler that moves in the step is serving a trigger and is at one of
\* the steps of store_data
StoreStepOfTrigger ==
    \E p \in Procs :
        /\ loc[p].kind = "trigger"
        /\ pc[p] \in {"store_data", "store_open", "store_dump"}
        /\ pc'[p] # pc[p]

\* C28: handling a callback never modifies the store; only triggers create
\* or change entries (the store changes in the store_data of a trigger
\* alone), and no operation removes an entry: a write keeps every key the
\* store held.
C28_OnlyTriggersChangeStore ==
    [][/\ store' # store => StoreStepOfTrigger
       /\ (store.status = "ok" /\ store'.status = "ok")
          => DOMAIN store.data \subseteq DOMAIN store'.data
       /\ (store.status = "ok" /\ store'.status = "empty")
          => \A p \in Procs :
                (pc[p] = "store_open" /\ pc'[p] = "store_lock")
                => DOMAIN store.data \subseteq DOMAIN loc[p].data
      ]_vars

\* application.py: two triggers for two keys have both answered 200 and the
\* store holds the key of the second alone
C28_EntryRemoved ==
    /\ variant = "application"
    /\ \A p \in Procs : /\ loc[p].kind = "trigger"
                        /\ pc[p] = "done"
                        /\ resp[p].status = 200
    /\ store.status = "ok"
    /\ loc["h1"]._hkey \notin DOMAIN store.data
    /\ DOMAIN store.data = {loc["h2"]._hkey}

=============================================================================
